---- MODULE Spec2Model ----
(***************************************************************************)
(* Model of the ts-proc MPEG-TS demultiplexer (source/ts_processor.cpp,    *)
(* source/main.cpp).  One run of main: the TSProcessor constructor         *)
(* (process_pat, process_pmt), then demux (process_file).                  *)
(***************************************************************************)
EXTENDS Integers, Sequences, FiniteSets, TLC

(***************************************************************************)
(* Bounds of the model.                                                    *)
(***************************************************************************)
\* Largest number of complete packets in an input file.
MaxPackets == 4

\* Largest number of packets after the PMT packet in a streaming input.
MaxStream == 2

(***************************************************************************)
(* Program constants.                                                      *)
(***************************************************************************)
TS_PACKET_HEADER == 4
TS_PACKET_PAYLOAD == 184
TS_PACKET_SIZE == TS_PACKET_HEADER + TS_PACKET_PAYLOAD
SYNC_BYTE == 71
NULL_PID == 8191

Byte == 0..255

(***************************************************************************)
(* Integer conversions, as the code performs them on a little-endian host. *)
(***************************************************************************)
\* *(uint16_t*)&p[i] : the two bytes b0 (lower address), b1 loaded as a
\* little-endian 16-bit value.
load_u16(b0, b1) == b0 + 256 * b1

\* *(uint32_t*)&p[i] : four bytes loaded as a little-endian 32-bit value,
\* kept as a sequence of four bytes, least significant first.
load_u32(b0, b1, b2, b3) == <<b0, b1, b2, b3>>

\* htobe16 : swaps the two bytes of a 16-bit value.
htobe16(x) == (x % 256) * 256 + (x \div 256)

\* htobe32 : reverses the four bytes; the result is given as the pair
\* <<high 16 bits, low 16 bits>> of the 32-bit word.
htobe32(w) == <<w[1] * 256 + w[2], w[3] * 256 + w[4]>>

\* (header & SYNC_BYTE_MASK) >> 24 == 0x47
IS_PACKET_VALID(header) == (header[1] \div 256) = SYNC_BYTE

\* (header & PID_MASK) >> 8 : bits 8..20 of the header word.
HeaderPid(header) == (header[1] % 32) * 256 + (header[2] \div 256)

\* header & PUSI_MASK : bit 22 of the header word (0 or non-zero).
HeaderPusi(header) == (header[1] \div 64) % 2

\* (header & AFC_MASK) >> 4 : bits 4..5 of the header word.
HeaderAfc(header) == (header[2] \div 16) % 4

\* TS_PACKET_PAYLOAD - pi in size_t (64 bits), as four 16-bit limbs, most
\* significant first.  pi is below 65536 here.
SizeSub(a, b) ==
    IF a >= b THEN <<0, 0, 0, a - b>>
              ELSE <<65535, 65535, 65535, 65536 - (b - a)>>

\* A size_t value below 65536 as a number; -1 when it does not fit.
SizeSmall(s) == IF s[1] = 0 /\ s[2] = 0 /\ s[3] = 0 THEN s[4] ELSE -1

(***************************************************************************)
(* Input files.  A file is a sequence of bytes; the inputs explored are    *)
(* concatenations of 188-byte packets, optionally followed by a partial    *)
(* packet.                                                                 *)
(***************************************************************************)
RECURSIVE Concat(_)
Concat(ss) == IF ss = <<>> THEN <<>> ELSE Head(ss) \o Concat(Tail(ss))

\* The four header bytes of a packet with the given sync byte, PUSI, PID
\* and adaptation-field-control (transport error, priority, scrambling and
\* continuity counter are 0).
HeaderBytes(sync, pusi, pid, afc) ==
    <<sync, pusi * 64 + (pid \div 256), pid % 256, afc * 16>>

\* 184 payload bytes: the given leading bytes, then filler bytes that
\* depend on their position, so that every slice of the payload is
\* recognisable.
PayloadBytes(head, seed) ==
    [i \in 1..TS_PACKET_PAYLOAD |->
        IF i <= Len(head) THEN head[i] ELSE (seed + i) % 256]

Packet(sync, pusi, pid, afc, head, seed) ==
    HeaderBytes(sync, pusi, pid, afc) \o PayloadBytes(head, seed)

PMT_PID == 256
VIDEO_PID == 257
AUDIO_PID == 258

\* A 16-bit big-endian field: rsv reserved top bits above a value of the
\* given width.
Field16(rsv, width, value) ==
    LET w == rsv * width + value IN <<w \div 256, w % 256>>

\* PAT section: pointer field, table id, section length, transport stream
\* id, version/section numbers, program entries, CRC.
PatSection(sec_len, entries) ==
    <<0, 0>> \o Field16(11, 4096, sec_len) \o <<0, 1, 193, 0, 0>>
        \o entries \o <<222, 173, 190, 239>>

PatEntry(prog, pid) == <<prog \div 256, prog % 256>> \o Field16(7, 8192, pid)

PAT_ONE == Packet(SYNC_BYTE, 1, 0, 1, PatSection(13, PatEntry(1, PMT_PID)), 3)
PAT_TWO == Packet(SYNC_BYTE, 1, 0, 1,
                  PatSection(17, PatEntry(1, PMT_PID) \o PatEntry(2, 512)), 3)

\* PMT section: pointer field, table id, section length, program number,
\* version/section numbers, PCR PID, program-info length, program info,
\* descriptors, CRC.
PmtSection(sec_len, pcr, pinfo, descs) ==
    <<0, 2>> \o Field16(11, 4096, sec_len) \o <<0, 1, 193, 0, 0>>
        \o Field16(7, 8192, pcr) \o Field16(15, 4096, Len(pinfo)) \o pinfo
        \o descs \o <<202, 254, 186, 190>>

PmtDesc(st, pid, es_info) ==
    <<st>> \o Field16(7, 8192, pid) \o Field16(15, 4096, Len(es_info))
        \o es_info

PMT_AV == Packet(SYNC_BYTE, 1, PMT_PID, 1,
                 PmtSection(23, VIDEO_PID, <<>>,
                            PmtDesc(27, VIDEO_PID, <<>>)
                                \o PmtDesc(15, AUDIO_PID, <<>>)), 5)

\* PES header: start code and stream id (4), PES packet length (2), two
\* flag bytes, PES header data length h, then h header-data bytes.
PesHeader(h) == <<0, 0, 1, 224, 0, 0, 128, 128, h>> \o [i \in 1..h |-> 255]

\* Adaptation field: its length byte l, then l bytes (as many as fit).
AdaptationField(l) == <<l>> \o [i \in 1..l |-> 170]

Truncate(s) == IF Len(s) > TS_PACKET_PAYLOAD
               THEN SubSeq(s, 1, TS_PACKET_PAYLOAD) ELSE s

\* An elementary-stream packet.
EsPacket(pid, pusi, afc, l, h, seed) ==
    Packet(SYNC_BYTE, pusi, pid, afc,
           Truncate((IF afc \in {2, 3} THEN AdaptationField(l) ELSE <<>>)
                    \o (IF pusi = 1 THEN PesHeader(h) ELSE <<>>)), seed)

VIDEO_START == EsPacket(VIDEO_PID, 1, 1, 0, 0, 11)
AUDIO_CONT == EsPacket(AUDIO_PID, 0, 1, 0, 0, 99)
NULL_PACKET == Packet(SYNC_BYTE, 0, NULL_PID, 1, <<>>, 0)
BAD_SYNC == Packet(72, 0, VIDEO_PID, 1, <<>>, 50)

\* The packets of the general specification.
CorePackets ==
    {PAT_ONE, PAT_TWO, PMT_AV, VIDEO_START, AUDIO_CONT, NULL_PACKET, BAD_SYNC}

\* Trailing partial packets: none, a short header, a header with a short
\* payload.
Tails == {<<>>, <<SYNC_BYTE, 1>>, <<SYNC_BYTE, 1, 1, 16, 0, 0>>}

\* Elementary-stream packets of every shape: with and without PUSI, every
\* adaptation-field-control, adaptation fields that are empty, that reach
\* the last bytes of the payload, that fill it, and one whose length byte
\* points past it; PES header data of two lengths.
StreamPackets ==
    {EsPacket(VIDEO_PID, 0, 1, 0, 0, 11),
     EsPacket(VIDEO_PID, 1, 1, 0, 5, 11),
     EsPacket(VIDEO_PID, 1, 3, 7, 5, 11),
     EsPacket(VIDEO_PID, 1, 3, 174, 0, 11),
     EsPacket(VIDEO_PID, 1, 3, 174, 5, 11),
     EsPacket(VIDEO_PID, 1, 3, 183, 0, 11),
     EsPacket(VIDEO_PID, 0, 3, 255, 0, 11),
     EsPacket(VIDEO_PID, 0, 2, 183, 0, 11),
     EsPacket(VIDEO_PID, 0, 2, 0, 0, 11),
     AUDIO_CONT,
     NULL_PACKET}

\* Packets placed before the PAT and between the PAT and the PMT.
EarlyPackets == {<<<<>>, <<>>>>, <<AUDIO_CONT, VIDEO_START>>}

\* The packets that follow the PMT in the inputs that are run twice.
RerunPackets ==
    {VIDEO_START, AUDIO_CONT, NULL_PACKET, BAD_SYNC,
     EsPacket(VIDEO_PID, 1, 3, 183, 0, 11)}

RECURSIVE SeqsUpTo(_, _)
SeqsUpTo(S, n) ==
    IF n = 0 THEN {<<>>}
    ELSE LET R == SeqsUpTo(S, n - 1)
         IN R \cup {<<x>> \o r : x \in S, r \in {q \in R : Len(q) = n - 1}}

(***************************************************************************)
(* State.                                                                  *)
(***************************************************************************)
VARIABLES
    input,            \* the bytes of the input file
    pos,              \* read cursor of m_input_file
    m_input_filesize, \* TSProcessor::m_input_filesize
    m_pmt_pid,        \* TSProcessor::m_pmt_pid
    m_video_pid,      \* TSProcessor::m_video_pid
    m_audio_pid,      \* TSProcessor::m_audio_pid
    pc,               \* the function main is executing
    packet,           \* payload of process_pmt's packet during its while loop
    pi,               \* process_pmt's index into packet.payload
    left,             \* process_pmt's count of section bytes left
    sinks_open,       \* the two output files have been opened by demux
    video_es,         \* bytes of the video output file
    audio_es,         \* bytes of the audio output file
    result,           \* exit status: -1 while running, 0, 1, 139 (killed)
    what,             \* message of the exception caught by main
    errors,           \* messages logged through log::error by the processor
    reads,            \* number of successful read_packet calls
    pat_index,        \* index of the packet parsed as PAT, -1 if none
    pmt_index,        \* index of the packet parsed as PMT, -1 if none
    writes,           \* the calls of ESWriter::write, in order
    first             \* outcome of the previous run on this input, if any

vars == <<input, pos, m_input_filesize, m_pmt_pid, m_video_pid, m_audio_pid,
          pc, packet, pi, left, sinks_open, video_es, audio_es, result, what,
          errors, reads, pat_index, pmt_index, writes, first>>

NoRun == [result |-> -1]

\* State at the start of the constructor body, after the file size has
\* been measured and the cursor put back at the beginning.
Start(file) ==
    /\ input = file
    /\ pos = 0
    /\ m_input_filesize = Len(file)
    /\ m_pmt_pid = NULL_PID
    /\ m_video_pid = NULL_PID
    /\ m_audio_pid = NULL_PID
    /\ pc = "process_pat"
    /\ packet = <<>>
    /\ pi = 0
    /\ left = 0
    /\ sinks_open = FALSE
    /\ video_es = <<>>
    /\ audio_es = <<>>
    /\ result = -1
    /\ what = ""
    /\ errors = <<>>
    /\ reads = 0
    /\ pat_index = -1
    /\ pmt_index = -1
    /\ writes = <<>>
    /\ first = NoRun

Init ==
    \E ps \in SeqsUpTo(CorePackets, MaxPackets), t \in Tails :
        Start(Concat(ps) \o t)

\* Inputs with a valid PAT and PMT followed by elementary-stream packets.
InitStream ==
    \E e \in EarlyPackets, ps \in SeqsUpTo(StreamPackets, MaxStream) :
        Start(e[1] \o PAT_ONE \o e[2] \o PMT_AV \o Concat(ps))

\* Inputs for two runs on the same file.
InitRerun ==
    \E e \in EarlyPackets, ps \in SeqsUpTo(RerunPackets, MaxStream) :
        Start(e[1] \o PAT_ONE \o e[2] \o PMT_AV \o Concat(ps))

\* The complete packets and the trailing partial packets of the inputs
\* that end inside a packet: a short header with and without the sync
\* byte, a header followed by a short payload, with and without the sync
\* byte.
TailPackets == {PAT_ONE, PMT_AV, VIDEO_START, NULL_PACKET}

PartialPackets ==
    {<<>>, <<SYNC_BYTE, 1>>, <<72>>, <<SYNC_BYTE, 1, 1, 16, 0, 0>>,
     <<72, 1, 1, 16, 0, 0>>}

InitTail ==
    \E ps \in SeqsUpTo(TailPackets, MaxPackets), t \in PartialPackets :
        Start(Concat(ps) \o t)

MaxTrail == 2

\* PAT packets that declare every section length, with one program entry.
PatLengths == 0..4095

PatOfLength(sec_len) ==
    Packet(SYNC_BYTE, 1, 0, 1, PatSection(sec_len, PatEntry(1, PMT_PID)), 3)

\* PMT packets: program info and descriptors, the section length covering
\* them.
PmtOf(pinfo, descs) ==
    Packet(SYNC_BYTE, 1, PMT_PID, 1,
           PmtSection(13 + Len(pinfo) + Len(descs), VIDEO_PID, pinfo, descs),
           5)

\* Stream types of every case of save_pid, and types it does not list.
DescTypes == {0, 1, 2, 3, 6, 15, 16, 27, 36, 129}

\* Program info: a private descriptor with 3 bytes of data, a single byte,
\* a registration descriptor.
ProgramInfos == {<<129, 3, 0, 0, 0>>, <<27>>, <<5, 4, 72, 68, 77, 86>>}

PmtPackets ==
    {PmtOf(<<>>, PmtDesc(t, VIDEO_PID, <<>>)) : t \in DescTypes}
    \cup {PmtOf(<<>>, PmtDesc(27, VIDEO_PID, <<>>)
                          \o PmtDesc(t, AUDIO_PID, <<>>)) : t \in DescTypes}
    \cup {PmtOf(<<>>, PmtDesc(15, AUDIO_PID, <<>>)
                          \o PmtDesc(t, VIDEO_PID, <<>>)) : t \in DescTypes}
    \cup {PmtOf(<<>>, PmtDesc(27, VIDEO_PID, <<1, 2, 3>>)
                          \o PmtDesc(15, AUDIO_PID, <<>>))}
    \cup {PmtOf(p, PmtDesc(27, VIDEO_PID, <<>>)
                       \o PmtDesc(15, AUDIO_PID, <<>>)) : p \in ProgramInfos}

\* Tables met after resolution: a PAT that names another PMT PID, a PMT
\* that exchanges the two roles.
PAT_ALT == Packet(SYNC_BYTE, 1, 0, 1, PatSection(13, PatEntry(1, 512)), 3)
PMT_ALT == PmtOf(<<>>, PmtDesc(27, AUDIO_PID, <<>>)
                           \o PmtDesc(15, VIDEO_PID, <<>>))

TrailPackets == {VIDEO_START, AUDIO_CONT, NULL_PACKET, PAT_ALT, PMT_ALT}

\* Inputs that start with a PAT of any section length, and inputs whose
\* PMT takes every shape, followed by packets of every kind.
InitTables ==
    \/ \E sl \in PatLengths : Start(PatOfLength(sl) \o PMT_AV \o VIDEO_START)
    \/ \E pmt \in PmtPackets, tr \in SeqsUpTo(TrailPackets, MaxTrail) :
           Start(PAT_ONE \o pmt \o Concat(tr))

\* The nine 16-bit words of a PAT and a PMT with two descriptors whose top
\* bits are reserved: PAT section length and PMT PID; PMT section length,
\* PCR PID, program-info length, and the elementary PID and ES-info length
\* of both descriptors.  A choice sets or clears the reserved bits of each.
ReservedChoices == [1..9 -> {0, 1}]

ReservedBits(r, w, all) == IF r[w] = 1 THEN all ELSE 0

ReservedPat(r) ==
    Packet(SYNC_BYTE, 1, 0, 1,
           <<0, 0>> \o Field16(ReservedBits(r, 1, 15), 4096, 13)
               \o <<0, 1, 193, 0, 0>> \o <<0, 1>>
               \o Field16(ReservedBits(r, 2, 7), 8192, PMT_PID)
               \o <<222, 173, 190, 239>>, 3)

ReservedPmt(r, pinfo) ==
    Packet(SYNC_BYTE, 1, PMT_PID, 1,
           <<0, 2>> \o Field16(ReservedBits(r, 3, 15), 4096, 23 + Len(pinfo))
               \o <<0, 1, 193, 0, 0>>
               \o Field16(ReservedBits(r, 4, 7), 8192, VIDEO_PID)
               \o Field16(ReservedBits(r, 5, 15), 4096, Len(pinfo)) \o pinfo
               \o <<27>> \o Field16(ReservedBits(r, 6, 7), 8192, VIDEO_PID)
               \o Field16(ReservedBits(r, 7, 15), 4096, 0)
               \o <<15>> \o Field16(ReservedBits(r, 8, 7), 8192, AUDIO_PID)
               \o Field16(ReservedBits(r, 9, 15), 4096, 0)
               \o <<202, 254, 186, 190>>, 5)

\* Program info of the PMTs whose reserved bits vary: none, one byte.
ReservedInfos == {<<>>, <<27>>}

InitReserved ==
    \E r \in ReservedChoices, pinfo \in ReservedInfos :
        Start(ReservedPat(r) \o ReservedPmt(r, pinfo) \o VIDEO_START
                  \o AUDIO_CONT)

\* The file with the reserved bits of the nine words cleared: the PAT is
\* packet 0 and the PMT packet 1, both with a pointer field; the
\* descriptors follow the P program-info bytes.
ClearReserved(file) ==
    LET P == (file[204] % 16) * 256 + file[205]
    IN  [i \in 1..Len(file) |->
            IF i \in {16, 202, 207 + P, 212 + P} THEN file[i] % 32
            ELSE IF i \in {7, 195, 204, 209 + P, 214 + P} THEN file[i] % 16
            ELSE file[i]]

\* Inputs in which tables come in any order: two PATs that name different
\* PMT PIDs, a PMT on each of the two PIDs (with the roles exchanged on the
\* second), and elementary-stream packets.
PMT_512 ==
    Packet(SYNC_BYTE, 1, 512, 1,
           PmtSection(23, VIDEO_PID, <<>>,
                      PmtDesc(27, AUDIO_PID, <<>>)
                          \o PmtDesc(15, VIDEO_PID, <<>>)), 5)

OrderPackets ==
    {PAT_ONE, PAT_ALT, PMT_AV, PMT_512, VIDEO_START, AUDIO_CONT}

InitOrder == \E ps \in SeqsUpTo(OrderPackets, MaxPackets) : Start(Concat(ps))

\* PMTs that list two descriptors of the same class, alone and around a
\* descriptor of the other class, without and with program info.
SameClassDescs ==
    {PmtDesc(27, VIDEO_PID, <<>>) \o PmtDesc(36, AUDIO_PID, <<>>),
     PmtDesc(2, AUDIO_PID, <<>>) \o PmtDesc(27, VIDEO_PID, <<>>),
     PmtDesc(15, VIDEO_PID, <<>>) \o PmtDesc(3, AUDIO_PID, <<>>),
     PmtDesc(27, VIDEO_PID, <<>>) \o PmtDesc(15, 512, <<>>)
         \o PmtDesc(27, AUDIO_PID, <<>>),
     PmtDesc(15, AUDIO_PID, <<>>) \o PmtDesc(27, 512, <<>>)
         \o PmtDesc(3, VIDEO_PID, <<>>)}

SameClassPmts ==
    {PmtOf(p, d) : p \in {<<>>, <<129, 3, 0, 0, 0>>}, d \in SameClassDescs}

InitSameClass ==
    \E pmt \in SameClassPmts,
       tr \in SeqsUpTo({VIDEO_START, AUDIO_CONT}, MaxTrail) :
           Start(PAT_ONE \o pmt \o Concat(tr))

(***************************************************************************)
(* TSProcessor::read_packet                                                *)
(***************************************************************************)
ERR_HEADER == "Can't read TS packet header input file"
ERR_SYNC == "Sync byte of TS packet has wrong value"
ERR_PAYLOAD == "Can't read TS packet payload input file"

\* read_packet without the sync-byte validation.
read_packet_resync(p) ==
    IF Len(input) - p < TS_PACKET_HEADER
    THEN [ok |-> FALSE, err |-> ERR_HEADER, pos |-> Len(input),
          header |-> <<0, 0>>, payload |-> <<>>]
    ELSE LET header == htobe32(load_u32(input[p + 1], input[p + 2],
                                        input[p + 3], input[p + 4]))
             q == p + TS_PACKET_HEADER
         IN  IF Len(input) - q < TS_PACKET_PAYLOAD
             THEN [ok |-> FALSE, err |-> ERR_PAYLOAD, pos |-> Len(input),
                   header |-> header, payload |-> <<>>]
             ELSE [ok |-> TRUE, err |-> "", pos |-> q + TS_PACKET_PAYLOAD,
                   header |-> header,
                   payload |-> SubSeq(input, q + 1, q + TS_PACKET_PAYLOAD)]

\* read_packet that does not count the header in the bytes consumed.
read_packet_short_advance(p) ==
    IF Len(input) - p < TS_PACKET_HEADER
    THEN [ok |-> FALSE, err |-> ERR_HEADER, pos |-> Len(input),
          header |-> <<0, 0>>, payload |-> <<>>]
    ELSE LET header == htobe32(load_u32(input[p + 1], input[p + 2],
                                        input[p + 3], input[p + 4]))
             q == p + TS_PACKET_HEADER
         IN  IF ~IS_PACKET_VALID(header)
             THEN [ok |-> FALSE, err |-> ERR_SYNC, pos |-> q,
                   header |-> header, payload |-> <<>>]
             ELSE IF Len(input) - q < TS_PACKET_PAYLOAD
             THEN [ok |-> FALSE, err |-> ERR_PAYLOAD, pos |-> Len(input),
                   header |-> header, payload |-> <<>>]
             ELSE [ok |-> TRUE, err |-> "", pos |-> p + TS_PACKET_PAYLOAD,
                   header |-> header,
                   payload |-> SubSeq(input, q + 1, q + TS_PACKET_PAYLOAD)]

\* The outcome of read_packet with the cursor at p: success flag, logged
\* error, new cursor, header word and payload.
read_packet(p) ==
    IF Len(input) - p < TS_PACKET_HEADER
    THEN [ok |-> FALSE, err |-> ERR_HEADER, pos |-> Len(input),
          header |-> <<0, 0>>, payload |-> <<>>]
    ELSE LET header == htobe32(load_u32(input[p + 1], input[p + 2],
                                        input[p + 3], input[p + 4]))
             q == p + TS_PACKET_HEADER
         IN  IF ~IS_PACKET_VALID(header)
             THEN [ok |-> FALSE, err |-> ERR_SYNC, pos |-> q,
                   header |-> header, payload |-> <<>>]
             ELSE IF Len(input) - q < TS_PACKET_PAYLOAD
             THEN [ok |-> FALSE, err |-> ERR_PAYLOAD, pos |-> Len(input),
                   header |-> header, payload |-> <<>>]
             ELSE [ok |-> TRUE, err |-> "", pos |-> q + TS_PACKET_PAYLOAD,
                   header |-> header,
                   payload |-> SubSeq(input, q + 1, q + TS_PACKET_PAYLOAD)]

\* htobe16(*(uint16_t*)&payload[i]) for an index i (from 0) inside the
\* payload.
be16_at(payload, i) == htobe16(load_u16(payload[i + 1], payload[i + 2]))

\* Signed integer division of C, truncating toward zero.
c_div(a, b) == IF a >= 0 THEN a \div b ELSE -((-a) \div b)

\* A loop condition that asks for a whole packet to be left.
more_input_whole_packet(p, size) == p + TS_PACKET_SIZE <= size

\* The condition of the three do-while loops:
\* (size_t)m_input_file.tellg() < m_input_filesize
more_input(p, size) == p < size

\* main's catch block after an exception thrown by the constructor or by
\* demux: the run ends with result 1.
Throw(msg) ==
    /\ pc' = "done"
    /\ result' = 1
    /\ what' = msg

(***************************************************************************)
(* TSProcessor::process_pat, one iteration of its do-while loop.           *)
(***************************************************************************)
ERR_PROGRAMS == "Number of programs different than 1"

\* The section length read by process_pat and process_pmt.
section_length(payload, pusi) ==
    be16_at(payload, (IF pusi # 0 THEN 1 ELSE 0) + 1) % 4096

\* A program count that takes the first program of a multi-program PAT.
pat_prog_num_first(sec_len) ==
    IF c_div(sec_len - 5 - 4, 4) > 1 THEN 1 ELSE c_div(sec_len - 5 - 4, 4)

\* A program count that leaves the CRC in the bytes divided.
pat_prog_num_no_crc(sec_len) == c_div(sec_len - 5, 4)

\* int prog_num = (sec_len - 5 - 4) / 4
pat_prog_num(sec_len) == c_div(sec_len - 5 - 4, 4)

\* A PMT PID taken from the program number of the entry.
pat_pmt_pid_program_number(payload, pusi) ==
    be16_at(payload, (IF pusi # 0 THEN 1 ELSE 0) + 1 + 2 + 2 + 3) % 8192

\* The PMT PID of the first program entry.
pat_pmt_pid(payload, pusi) ==
    be16_at(payload, (IF pusi # 0 THEN 1 ELSE 0) + 1 + 2 + 2 + 3 + 2) % 8192

process_pat ==
    /\ pc = "process_pat"
    /\ LET r == read_packet(pos)
           pid == HeaderPid(r.header)
           pusi == HeaderPusi(r.header)
       IN  /\ pos' = r.pos
           /\ IF ~r.ok
              THEN /\ Throw("Can't find PAT")
                   /\ errors' = Append(errors, r.err)
                   /\ UNCHANGED <<m_pmt_pid, reads, pat_index>>
              ELSE /\ reads' = reads + 1
                   /\ IF pid # 0
                      THEN \* continue: the loop condition is tested next
                           /\ pc' = IF more_input(r.pos, m_input_filesize)
                                    THEN "process_pat" ELSE "process_pmt"
                           /\ UNCHANGED <<m_pmt_pid, pat_index, result, what,
                                          errors>>
                      ELSE /\ pat_index' = pos \div TS_PACKET_SIZE
                           /\ IF pat_prog_num(section_length(r.payload, pusi))
                                    # 1
                              THEN /\ Throw("Can't find PAT")
                                   /\ errors' = Append(errors, ERR_PROGRAMS)
                                   /\ UNCHANGED m_pmt_pid
                              ELSE /\ m_pmt_pid' = pat_pmt_pid(r.payload, pusi)
                                   /\ pc' = "process_pmt"
                                   /\ UNCHANGED <<result, what, errors>>
    /\ UNCHANGED <<input, m_input_filesize, m_video_pid, m_audio_pid, packet,
                   pi, left, sinks_open, video_es, audio_es, pmt_index,
                   writes, first>>

(***************************************************************************)
(* TSProcessor::save_pid                                                   *)
(***************************************************************************)
VideoTypes == {1, 2, 16, 27, 36}
AudioTypes == {3, 15}

\* save_pid with the two case groups assigning the other member.
save_pid_swapped(v, a, pid, type) ==
    IF type \in VideoTypes THEN <<v, pid>>
    ELSE IF type \in AudioTypes THEN <<pid, a>>
    ELSE <<v, a>>

\* save_pid without the H.265 case.
save_pid_no_hevc(v, a, pid, type) ==
    IF type \in VideoTypes \ {36} THEN <<pid, a>>
    ELSE IF type \in AudioTypes THEN <<v, pid>>
    ELSE <<v, a>>

\* The pair <<m_video_pid, m_audio_pid>> after save_pid(pid, type).
save_pid(v, a, pid, type) ==
    IF type \in VideoTypes THEN <<pid, a>>
    ELSE IF type \in AudioTypes THEN <<v, pid>>
    ELSE <<v, a>>

(***************************************************************************)
(* Bytes the code reads past the end of packet.payload: the contents of    *)
(* the stack beyond the packet are not determined by the input.            *)
(***************************************************************************)
StackByteValues == {0, 27, 255}

\* The n bytes at payload[i .. i+n-1] (i from 0) that a read can return:
\* the payload's bytes inside the array, any stack byte outside.
bytes_at(payload, i, n) ==
    {[k \in 0..(n - 1) |->
        IF i + k < TS_PACKET_PAYLOAD THEN payload[i + k + 1] ELSE g[k]] :
     g \in [0..(n - 1) -> StackByteValues]}

(***************************************************************************)
(* TSProcessor::process_pmt, one iteration of its do-while loop up to the  *)
(* start of the descriptor loop.                                           *)
(***************************************************************************)
\* The program-info length read by process_pmt.
pmt_pinfo_size(payload, pusi) ==
    be16_at(payload, (IF pusi # 0 THEN 1 ELSE 0) + 1 + 2 + 2 + 3 + 2) % 4096

\* Index of the first descriptor: pi after the program-info length.
pmt_first_descriptor(pusi) == (IF pusi # 0 THEN 1 ELSE 0) + 1 + 2 + 2 + 3 + 2 + 2

\* int left = sec_len - 9 - pinfo_size - 4
pmt_left(sec_len, pinfo_size) == sec_len - 9 - pinfo_size - 4

process_pmt ==
    /\ pc = "process_pmt"
    /\ LET r == read_packet(pos)
           pid == HeaderPid(r.header)
           pusi == HeaderPusi(r.header)
       IN  /\ pos' = r.pos
           /\ IF ~r.ok
              THEN /\ Throw("Can't find PMT")
                   /\ errors' = Append(errors, r.err)
                   /\ UNCHANGED <<reads, pmt_index, packet, pi, left>>
              ELSE /\ reads' = reads + 1
                   /\ UNCHANGED <<result, what, errors>>
                   /\ IF pid # m_pmt_pid
                      THEN \* continue: the loop condition is tested next
                           /\ pc' = IF more_input(r.pos, m_input_filesize)
                                    THEN "process_pmt" ELSE "demux"
                           /\ UNCHANGED <<pmt_index, packet, pi, left>>
                      ELSE LET l == pmt_left(section_length(r.payload, pusi),
                                             pmt_pinfo_size(r.payload, pusi))
                           IN  /\ pmt_index' = pos \div TS_PACKET_SIZE
                               /\ pi' = pmt_first_descriptor(pusi)
                               /\ left' = l
                               /\ IF l > 0
                                  THEN /\ pc' = "pmt_descriptor"
                                       /\ packet' = r.payload
                                  ELSE /\ pc' = "demux"
                                       /\ UNCHANGED packet
    /\ UNCHANGED <<input, m_input_filesize, m_pmt_pid, m_video_pid,
                   m_audio_pid, sinks_open, video_es, audio_es, pat_index,
                   writes, first>>

(***************************************************************************)
(* TSProcessor::process_pmt, one iteration of while (left > 0).            *)
(***************************************************************************)
pmt_descriptor ==
    /\ pc = "pmt_descriptor"
    /\ \E b \in bytes_at(packet, pi, 5) :
        LET st == b[0]
            el == htobe16(load_u16(b[1], b[2])) % 8192
            es_ilen == htobe16(load_u16(b[3], b[4])) % 4096
            saved == save_pid(m_video_pid, m_audio_pid, el, st)
        IN  /\ pi' = pi + 5 + es_ilen
            /\ left' = left - 5 - es_ilen
            /\ m_video_pid' = saved[1]
            /\ m_audio_pid' = saved[2]
            /\ IF left - 5 - es_ilen > 0
               THEN /\ pc' = "pmt_descriptor"
                    /\ UNCHANGED packet
               ELSE /\ pc' = "demux"
                    /\ packet' = <<>>
    /\ UNCHANGED <<input, pos, m_input_filesize, m_pmt_pid, sinks_open,
                   video_es, audio_es, result, what, errors, reads,
                   pat_index, pmt_index, writes, first>>

(***************************************************************************)
(* TSProcessor::demux up to the call of process_file.                      *)
(***************************************************************************)
\* demux rewinding the input before streaming.
demux_rewind ==
    /\ pc = "demux"
    /\ sinks_open' = TRUE
    /\ video_es' = <<>>
    /\ audio_es' = <<>>
    /\ pos' = 0
    /\ pc' = "process_file"
    /\ UNCHANGED <<input, m_input_filesize, m_pmt_pid, m_video_pid,
                   m_audio_pid, packet, pi, left, result, what, errors,
                   reads, pat_index, pmt_index, writes, first>>

\* demux that opens the sinks and resets the audio role.
demux_forgets_roles ==
    /\ pc = "demux"
    /\ sinks_open' = TRUE
    /\ video_es' = <<>>
    /\ audio_es' = <<>>
    /\ m_audio_pid' = NULL_PID
    /\ pc' = "process_file"
    /\ UNCHANGED <<input, pos, m_input_filesize, m_pmt_pid, m_video_pid,
                   packet, pi, left, result, what, errors, reads, pat_index,
                   pmt_index, writes, first>>

demux ==
    /\ pc = "demux"
    /\ sinks_open' = TRUE
    /\ video_es' = <<>>
    /\ audio_es' = <<>>
    /\ pc' = "process_file"
    /\ UNCHANGED <<input, pos, m_input_filesize, m_pmt_pid, m_video_pid,
                   m_audio_pid, packet, pi, left, result, what, errors,
                   reads, pat_index, pmt_index, writes, first>>

(***************************************************************************)
(* ESWriter::write(buffer, size) with buffer = &packet.payload[pi].        *)
(***************************************************************************)
\* The possible effects on a sink: the new contents, or the process is
\* killed.  A range inside the payload is appended; a range that leaves
\* the payload (size wrapped around) is an out-of-bounds read of
\* undetermined extent.
es_write(sink, payload, offset, size) ==
    IF SizeSmall(size) >= 0 /\ offset + SizeSmall(size) <= TS_PACKET_PAYLOAD
    THEN {[killed |-> FALSE,
           es |-> sink \o SubSeq(payload, offset + 1,
                                 offset + SizeSmall(size))]}
    ELSE {[killed |-> TRUE, es |-> sink], [killed |-> FALSE, es |-> sink]}
         \cup {[killed |-> FALSE, es |-> Append(sink, g)] :
                 g \in StackByteValues}

(***************************************************************************)
(* TSProcessor::process_file, one iteration of its do-while loop.          *)
(***************************************************************************)
\* The adaptation-field step without the length byte itself.
af_offset_no_length_byte(payload, afc) ==
    IF afc \in {2, 3} THEN payload[1] ELSE 0

\* pi after the adaptation-field step.
af_offset(payload, afc) == IF afc \in {2, 3} THEN payload[1] + 1 ELSE 0

\* opes = (htobe32(*(uint32_t*)&payload[pi]) & 0x0000ff00) >> 8 for the four
\* bytes b read at pi.
pes_header_data_length(b) ==
    htobe32(load_u32(b[0], b[1], b[2], b[3]))[2] \div 256

\* The PES step without the 3 bytes of flags and header-data length.
pes_offset_short(start, pusi, opes) ==
    IF pusi # 0 THEN start + 4 + 2 + opes ELSE start

\* The values opes can take: none is read without PUSI; with PUSI the four
\* bytes are read 6 bytes after the end of the adaptation field.
pes_lengths(payload, afc, pusi) ==
    IF pusi # 0
    THEN {pes_header_data_length(b) :
            b \in bytes_at(payload, af_offset(payload, afc) + 4 + 2, 4)}
    ELSE {0}

\* pi after the PES step, opes being the PES header data length read.
pes_offset(start, pusi, opes) ==
    IF pusi # 0 THEN start + 4 + 2 + 3 + opes ELSE start

\* The routing with the two branches exchanged.
es_sink_swapped(pid, video_pid) ==
    IF pid = video_pid THEN "audio" ELSE "video"

\* The sink of a routed packet: the video writer when the PID is the video
\* PID, the audio writer otherwise.
es_sink(pid, video_pid) == IF pid = video_pid THEN "video" ELSE "audio"

\* The length passed to write: TS_PACKET_PAYLOAD - pi.
write_size(offset) == SizeSub(TS_PACKET_PAYLOAD, offset)

process_file ==
    /\ pc = "process_file"
    /\ LET r == read_packet(pos)
           pid == HeaderPid(r.header)
           pusi == HeaderPusi(r.header)
           afc == HeaderAfc(r.header)
       IN  /\ pos' = r.pos
           /\ IF ~r.ok
              THEN /\ Throw("Can't process file")
                   /\ errors' = Append(errors, r.err)
                   /\ UNCHANGED <<reads, video_es, audio_es, writes>>
              ELSE /\ reads' = reads + 1
                   /\ UNCHANGED errors
                   /\ IF pid # m_video_pid /\ pid # m_audio_pid
                      THEN \* continue: the loop condition is tested next
                           /\ IF more_input(r.pos, m_input_filesize)
                              THEN UNCHANGED <<pc, result>>
                              ELSE pc' = "done" /\ result' = 0
                           /\ UNCHANGED <<what, video_es, audio_es, writes>>
                      ELSE \E opes \in pes_lengths(r.payload, afc, pusi) :
                           LET offset == pes_offset(af_offset(r.payload, afc),
                                                    pusi, opes)
                               size == write_size(offset)
                               sink == es_sink(pid, m_video_pid)
                           IN  \E w \in es_write(IF sink = "video"
                                                 THEN video_es ELSE audio_es,
                                                 r.payload, offset, size) :
                               /\ writes' = Append(writes,
                                     [packet |-> pos \div TS_PACKET_SIZE,
                                      sink |-> sink, offset |-> offset,
                                      size |-> size, killed |-> w.killed,
                                      appended |-> Len(w.es) -
                                          Len(IF sink = "video" THEN video_es
                                                                ELSE audio_es)])
                               /\ IF sink = "video"
                                  THEN video_es' = w.es /\ UNCHANGED audio_es
                                  ELSE audio_es' = w.es /\ UNCHANGED video_es
                               /\ UNCHANGED what
                               /\ IF w.killed
                                  THEN pc' = "done" /\ result' = 139
                                  ELSE IF more_input(r.pos, m_input_filesize)
                                  THEN UNCHANGED <<pc, result>>
                                  ELSE pc' = "done" /\ result' = 0
    /\ UNCHANGED <<input, m_input_filesize, m_pmt_pid, m_video_pid,
                   m_audio_pid, packet, pi, left, sinks_open, pat_index,
                   pmt_index, first>>

Next ==
    \/ process_pat
    \/ process_pmt
    \/ pmt_descriptor
    \/ demux
    \/ process_file

Spec == Init /\ [][Next]_vars

SpecStream == InitStream /\ [][Next]_vars

\* A run goes on until it ends: main is a sequential program, so a step
\* that can be taken is taken.
SpecStreamLive == InitStream /\ [][Next]_vars /\ WF_vars(Next)

SpecTail == InitTail /\ [][Next]_vars

SpecOrder == InitOrder /\ [][Next]_vars

SpecSameClass == InitSameClass /\ [][Next]_vars

SpecTables == InitTables /\ [][Next]_vars

(***************************************************************************)
(* A second run of main on the same input file, the output files being     *)
(* put back in their initial state.                                        *)
(***************************************************************************)
Outcome ==
    [result |-> result, what |-> what, sinks_open |-> sinks_open,
     video_es |-> video_es, audio_es |-> audio_es, m_pmt_pid |-> m_pmt_pid,
     m_video_pid |-> m_video_pid, m_audio_pid |-> m_audio_pid]

Rerun ==
    /\ pc = "done"
    /\ first = NoRun
    /\ first' = Outcome
    /\ input' = input
    /\ pos' = 0
    /\ m_input_filesize' = Len(input)
    /\ m_pmt_pid' = NULL_PID
    /\ m_video_pid' = NULL_PID
    /\ m_audio_pid' = NULL_PID
    /\ pc' = "process_pat"
    /\ packet' = <<>>
    /\ pi' = 0
    /\ left' = 0
    /\ sinks_open' = FALSE
    /\ video_es' = <<>>
    /\ audio_es' = <<>>
    /\ result' = -1
    /\ what' = ""
    /\ errors' = <<>>
    /\ reads' = 0
    /\ pat_index' = -1
    /\ pmt_index' = -1
    /\ writes' = <<>>

\* A second run, on the file with its reserved bits cleared.
RerunCleared ==
    /\ pc = "done"
    /\ first = NoRun
    /\ first' = Outcome
    /\ input' = ClearReserved(input)
    /\ pos' = 0
    /\ m_input_filesize' = Len(input)
    /\ m_pmt_pid' = NULL_PID
    /\ m_video_pid' = NULL_PID
    /\ m_audio_pid' = NULL_PID
    /\ pc' = "process_pat"
    /\ packet' = <<>>
    /\ pi' = 0
    /\ left' = 0
    /\ sinks_open' = FALSE
    /\ video_es' = <<>>
    /\ audio_es' = <<>>
    /\ result' = -1
    /\ what' = ""
    /\ errors' = <<>>
    /\ reads' = 0
    /\ pat_index' = -1
    /\ pmt_index' = -1
    /\ writes' = <<>>

NextReserved ==
    \/ process_pat
    \/ process_pmt
    \/ pmt_descriptor
    \/ demux
    \/ process_file
    \/ RerunCleared

SpecReserved == InitReserved /\ [][NextReserved]_vars

NextRerun ==
    \/ process_pat
    \/ process_pmt
    \/ pmt_descriptor
    \/ demux
    \/ process_file
    \/ Rerun

SpecRerun == InitRerun /\ [][NextRerun]_vars

TypeOK ==
    /\ pos \in 0..Len(input)
    /\ pc \in {"process_pat", "process_pmt", "pmt_descriptor", "demux",
               "process_file", "done"}
    /\ result \in {-1, 0, 1, 139}
    /\ (pc = "done") = (result # -1)

(***************************************************************************)
(* The input as the specification describes it: packet k (from 0) of the   *)
(* file, its header fields and its payload, read from the bytes.           *)
(***************************************************************************)
NumPackets == Len(input) \div 188

SyncOf(k) == input[188 * k + 1]
PusiOf(k) == (input[188 * k + 2] \div 64) % 2
PidOf(k) == (input[188 * k + 2] % 32) * 256 + input[188 * k + 3]
AfcOf(k) == (input[188 * k + 4] \div 16) % 4
PayloadOf(k) == SubSeq(input, 188 * k + 5, 188 * k + 188)

\* Only complete packets that start with the sync byte.
WellFramed ==
    /\ Len(input) % 188 = 0
    /\ \A k \in 0..(NumPackets - 1) : SyncOf(k) = 71

\* Index of the first packet at or after index from with the given PID,
\* NumPackets if there is none.
RECURSIVE FirstWithPid(_, _)
FirstWithPid(pid, from) ==
    IF from >= NumPackets THEN NumPackets
    ELSE IF PidOf(from) = pid THEN from
    ELSE FirstWithPid(pid, from + 1)

Logged(msg) == \E i \in 1..Len(errors) : errors[i] = msg

Reading == pc \in {"process_pat", "process_pmt", "process_file"}

(***************************************************************************)
(* C1.  In every phase, a read that meets a header whose first byte is not *)
(* 0x47 consumes the 4 header bytes only, logs the sync error, reads no    *)
(* packet, changes no sink and no PID and ends the run with result 1; no   *)
(* step follows a sync error.                                              *)
(***************************************************************************)
C1_BadSyncHalts ==
    [][/\ (Reading /\ Len(input) - pos >= 4 /\ input[pos + 1] # 71)
            => /\ pos' = pos + 4
               /\ errors' = Append(errors, ERR_SYNC)
               /\ reads' = reads
               /\ pc' = "done"
               /\ result' = 1
               /\ what' \in {"Can't find PAT", "Can't find PMT",
                             "Can't process file"}
               /\ UNCHANGED <<video_es, audio_es, writes, m_pmt_pid,
                              m_video_pid, m_audio_pid, pat_index, pmt_index>>
       /\ ~Logged(ERR_SYNC)]_vars

C1_Witness ==
    /\ Logged(ERR_SYNC)
    /\ what = "Can't process file"
    /\ reads = 3
    /\ pos = 3 * 188 + 4

(***************************************************************************)
(* C3.  When the PMT has been parsed the cursor is 188 * (index of the PMT *)
(* packet + 1) at the end of resolution, it never moves backwards, and     *)
(* every byte of the sinks comes from a packet after the PMT packet.       *)
(***************************************************************************)
RECURSIVE WrittenSlices(_, _)
WrittenSlices(sink, n) ==
    IF n = 0 THEN <<>>
    ELSE WrittenSlices(sink, n - 1) \o
         (IF writes[n].sink = sink
          THEN SubSeq(PayloadOf(writes[n].packet), writes[n].offset + 1, 184)
          ELSE <<>>)

C3_Inv ==
    /\ (pc = "demux" /\ pmt_index >= 0) => pos = 188 * (pmt_index + 1)
    /\ pmt_index >= 0 => pos >= 188 * (pmt_index + 1)
    /\ \A i \in 1..Len(writes) :
          pmt_index >= 0 /\ writes[i].packet > pmt_index
    /\ video_es = WrittenSlices("video", Len(writes))
    /\ audio_es = WrittenSlices("audio", Len(writes))

C3_NoRewind == []C3_Inv /\ [][pos' >= pos]_vars

C3_Witness ==
    /\ pc = "done"
    /\ result = 0
    /\ Len(video_es) > 0
    /\ \E k \in 0..(NumPackets - 1) : k < pmt_index /\ PidOf(k) = m_video_pid

(***************************************************************************)
(* C4.  When the first PID-0 packet encodes a program count other than 1,  *)
(* reading it ends the run with the program-count error: the cursor stays  *)
(* right after it, the PMT PID keeps its initial value and no sink is      *)
(* opened or written.                                                      *)
(***************************************************************************)
\* (section_length - 9) / 4 of the PAT in packet k, from its bytes.
PatCountOf(k) ==
    LET t == IF PusiOf(k) = 1 THEN 1 ELSE 0
        sl == (PayloadOf(k)[t + 2] % 16) * 256 + PayloadOf(k)[t + 3]
    IN  IF sl >= 9 THEN (sl - 9) \div 4 ELSE -((9 - sl) \div 4)

C4_UnsupportedProgramCount ==
    LET k == FirstWithPid(0, 0)
    IN  (k < NumPackets /\ SyncOf(k) = 71 /\ PatCountOf(k) # 1
            /\ pos > 188 * k)
        => /\ pc = "done"
           /\ result = 1
           /\ what = "Can't find PAT"
           /\ errors = <<ERR_PROGRAMS>>
           /\ pat_index = k
           /\ pos = 188 * (k + 1)
           /\ reads = k + 1
           /\ m_pmt_pid = 8191
           /\ pmt_index = -1
           /\ ~sinks_open
           /\ video_es = <<>> /\ audio_es = <<>> /\ writes = <<>>

C4_Witness ==
    /\ Logged(ERR_PROGRAMS)
    /\ pat_index = 1
    /\ NumPackets > 2
    /\ PidOf(2) = 0

(***************************************************************************)
(* C8.  The 3-packet scenario (PAT, PMT, one video packet with PUSI and a  *)
(* PES header without header data) succeeds with PMT PID 0x100, video PID  *)
(* 0x101, audio PID 0x102, the 175 payload bytes 9..183 of the third       *)
(* packet in the video sink and an empty audio sink.                       *)
(***************************************************************************)
Scenario ==
    Packet(71, 1, 0, 1, PatSection(13, PatEntry(1, 256)), 3)
    \o Packet(71, 1, 256, 1,
              PmtSection(23, 257, <<>>,
                         PmtDesc(27, 257, <<>>) \o PmtDesc(15, 258, <<>>)), 5)
    \o Packet(71, 1, 257, 1, PesHeader(0), 11)

C8_Scenario ==
    (input = Scenario /\ pc = "done")
    => /\ result = 0
       /\ what = ""
       /\ m_pmt_pid = 256
       /\ m_video_pid = 257
       /\ m_audio_pid = 258
       /\ sinks_open
       /\ Len(video_es) = 175
       /\ video_es = SubSeq(Scenario, 2 * 188 + 4 + 9 + 1, 3 * 188)
       /\ audio_es = <<>>

C8_Witness == input = Scenario /\ pc = "done" /\ Len(writes) = 1

(***************************************************************************)
(* C10.  On an input of complete, well-framed packets none of which has    *)
(* PID 0, the PMT search is never entered and the run ends with the        *)
(* failure "Can't find PAT".                                               *)
(***************************************************************************)
C10_PatNotFound ==
    (WellFramed /\ FirstWithPid(0, 0) = NumPackets)
    => /\ pc \in {"process_pat", "done"}
       /\ pc = "done" => (result = 1 /\ what = "Can't find PAT")

(***************************************************************************)
(* The elementary-stream offset of packet k as the specification defines   *)
(* it, from the packet's bytes.                                            *)
(***************************************************************************)
AfLengthOf(k) == IF AfcOf(k) \in {2, 3} THEN 1 + PayloadOf(k)[1] ELSE 0

\* The PES header-data-length byte lies inside the payload.
PesLengthInside(k) == AfLengthOf(k) + 8 < 184

OffsetOf(k) ==
    IF PusiOf(k) = 1
    THEN AfLengthOf(k) + 4 + 2 + 3 + PayloadOf(k)[AfLengthOf(k) + 8 + 1]
    ELSE AfLengthOf(k)

\* The headers of packet k end inside its payload.
HeadersFit(k) == (PusiOf(k) = 1 => PesLengthInside(k)) /\ OffsetOf(k) <= 184

\* Concatenation of the slices [offset, 184) of the packets from..to-1
\* that carry the given PID.
RECURSIVE ExpectedEs(_, _, _)
ExpectedEs(pid, from, to) ==
    IF from >= to THEN <<>>
    ELSE ExpectedEs(pid, from, to - 1) \o
         (IF PidOf(to - 1) = pid
          THEN SubSeq(PayloadOf(to - 1), OffsetOf(to - 1) + 1, 184)
          ELSE <<>>)

\* Index of the PMT packet: the first packet with the PMT PID after the
\* first PID-0 packet.
PmtPacket == FirstWithPid(256, FirstWithPid(0, 0) + 1)

\* A valid single-program input: well framed, and the headers of every
\* video and audio packet from index from on end inside the payload.
ValidFrom(from) ==
    /\ WellFramed
    /\ \A k \in from..(NumPackets - 1) :
          PidOf(k) \in {257, 258} => HeadersFit(k)

C5_AdaptationOnlyAppendsNothing ==
    \A i \in 1..Len(writes) :
        AfcOf(writes[i].packet) = 2 => writes[i].appended = 0

(***************************************************************************)
(* C6.  The offset computed for a routed packet is (1 + L if AFC is 2 or   *)
(* 3) + (4 + 2 + 3 + H if PUSI is set), L being payload byte 0 and H the   *)
(* byte 8 bytes after the start of the PES header.                         *)
(***************************************************************************)
C6_OffsetFormula ==
    \A i \in 1..Len(writes) :
        LET k == writes[i].packet
        IN  IF PusiOf(k) = 1 /\ ~PesLengthInside(k)
            THEN \E h \in 0..255 :
                    writes[i].offset = AfLengthOf(k) + 4 + 2 + 3 + h
            ELSE writes[i].offset = OffsetOf(k)

C6_Witness ==
    \E i \in 1..Len(writes) :
        LET k == writes[i].packet
        IN  /\ PusiOf(k) = 1 /\ AfcOf(k) = 3
            /\ PayloadOf(k)[1] = 7
            /\ writes[i].offset = 1 + 7 + 4 + 2 + 3 + 5

(***************************************************************************)
(* C7.  A routed packet whose offset is 184 or more is written with length *)
(* 0, appends nothing, and the run goes on.                                *)
(***************************************************************************)
C7_NoWrapAround ==
    \A i \in 1..Len(writes) :
        writes[i].offset >= 184
        => /\ writes[i].size = <<0, 0, 0, 0>>
           /\ writes[i].appended = 0
           /\ ~writes[i].killed

(***************************************************************************)
(* C9.  A second run on the same input with the same initial sinks ends    *)
(* with the same result, the same sinks and the same PIDs as the first.    *)
(***************************************************************************)
C9_Deterministic == (pc = "done" /\ first # NoRun) => Outcome = first

(***************************************************************************)
(* The PMT PID announced by the PAT in packet k, from its bytes.           *)
(***************************************************************************)
PmtPidOf(k) ==
    LET t == IF PusiOf(k) = 1 THEN 1 ELSE 0
    IN  (PayloadOf(k)[t + 11] % 32) * 256 + PayloadOf(k)[t + 12]

\* The first PID-0 packet and the first packet after it that carries the
\* PMT PID it announces (NumPackets when there is none).
PatPacket == FirstWithPid(0, 0)
PmtPacketOfPat ==
    IF PatPacket < NumPackets
    THEN FirstWithPid(PmtPidOf(PatPacket), PatPacket + 1)
    ELSE NumPackets

(***************************************************************************)
(* C11.  When a PAT with one program has been parsed and no well-framed    *)
(* packet after it carries the PMT PID, the streaming phase is never       *)
(* entered, no sink is opened and the run ends with the failure "Can't     *)
(* find PMT".                                                              *)
(***************************************************************************)
C11_PmtNotFound ==
    (WellFramed /\ PatPacket < NumPackets /\ PatCountOf(PatPacket) = 1
        /\ PmtPacketOfPat = NumPackets)
    => /\ pc \notin {"demux", "process_file"}
       /\ ~sinks_open
       /\ pc = "done" => (result = 1 /\ what = "Can't find PMT")

(***************************************************************************)
(* C16.  When the PMT packet is the last packet of a well-framed input the *)
(* run ends with success and both sinks empty.                             *)
(***************************************************************************)
C16_PmtLastSucceeds ==
    (WellFramed /\ PatPacket < NumPackets /\ PatCountOf(PatPacket) = 1
        /\ PmtPacketOfPat = NumPackets - 1 /\ pc = "done")
    => /\ result = 0
       /\ video_es = <<>>
       /\ audio_es = <<>>

(***************************************************************************)
(* The trailing partial packet of the input and the error its read gives   *)
(* according to the reader's contract: fewer than 4 bytes are a short      *)
(* header; 4 bytes or more are checked for the sync byte before the        *)
(* payload is read.                                                        *)
(***************************************************************************)
TailLength == Len(input) % 188

TailStartsWithSync == input[188 * NumPackets + 1] = 71

(***************************************************************************)
(* C12 as stated.  A run on an input whose length is not a multiple of 188 *)
(* never ends in success, and the read of the trailing partial packet      *)
(* fails with a truncation error (short header or short payload) that      *)
(* aborts the run.                                                         *)
(***************************************************************************)
C12_TruncationError ==
    TailLength # 0
    => /\ result # 0
       /\ pos > 188 * NumPackets
          => /\ pc = "done" /\ result = 1
             /\ errors \in {<<ERR_HEADER>>, <<ERR_PAYLOAD>>}

(***************************************************************************)
(* C12 amended.  A run on an input whose length is not a multiple of 188   *)
(* never ends in success, and the read of the trailing partial packet      *)
(* fails and aborts the run: with the header error when it has fewer than  *)
(* 4 bytes, with the sync error when it has 4 bytes or more and does not   *)
(* start with 0x47, with the payload error otherwise.                      *)
(***************************************************************************)
C12_PartialPacketAborts ==
    TailLength # 0
    => /\ result # 0
       /\ pos > 188 * NumPackets
          => /\ pc = "done" /\ result = 1
             /\ errors = <<IF TailLength < 4 THEN ERR_HEADER
                           ELSE IF ~TailStartsWithSync THEN ERR_SYNC
                           ELSE ERR_PAYLOAD>>

C12_Witness ==
    /\ TailLength = 6
    /\ TailStartsWithSync
    /\ what = "Can't process file"
    /\ errors = <<ERR_PAYLOAD>>
    /\ pos = Len(input)
    /\ Len(video_es) > 0

(***************************************************************************)
(* C13.  Whenever read_packet is about to be called the cursor is 188      *)
(* times the number of packets read so far; a successful read advances the *)
(* cursor by exactly 188 bytes and the cursor never decreases.             *)
(***************************************************************************)
C13_CursorTracksReads ==
    /\ [](Reading => pos = 188 * reads)
    /\ [][/\ reads' \in {reads, reads + 1}
          /\ reads' = reads + 1 => pos' = pos + 188
          /\ pos' >= pos]_vars

C13_Witness ==
    /\ pc = "process_file"
    /\ reads = 3
    /\ pos = 3 * 188
    /\ pat_index = 1
    /\ pmt_index = 2

IsPrefix(a, b) == Len(a) <= Len(b) /\ SubSeq(b, 1, Len(a)) = a

(***************************************************************************)
(* C14.  A streaming step that reads a packet whose PID is neither the     *)
(* video PID nor the audio PID of the role mapping changes no sink; a      *)
(* packet with the video PID only appends to the video sink; a packet with *)
(* the audio PID (and not the video PID) only appends to the audio sink.   *)
(* A failed read changes no sink.                                          *)
(***************************************************************************)
C14_OnlyMatchingSink ==
    [][pc = "process_file"
       => IF reads' = reads
          THEN UNCHANGED <<video_es, audio_es>>
          ELSE LET pid == PidOf(pos \div 188)
               IN  /\ (pid # m_video_pid /\ pid # m_audio_pid)
                      => UNCHANGED <<video_es, audio_es>>
                   /\ pid = m_video_pid
                      => /\ UNCHANGED audio_es
                         /\ IsPrefix(video_es, video_es')
                   /\ (pid # m_video_pid /\ pid = m_audio_pid)
                      => /\ UNCHANGED video_es
                         /\ IsPrefix(audio_es, audio_es')]_vars

C14_Witness ==
    /\ pc = "done"
    /\ result = 0
    /\ NumPackets = 4
    /\ PidOf(2) = m_audio_pid
    /\ PidOf(3) = 0
    /\ m_video_pid = 257
    /\ m_audio_pid = 258
    /\ Len(audio_es) = 184
    /\ video_es = <<>>

(***************************************************************************)
(* C15.  From the end of resolution on, no step changes the PMT PID, the   *)
(* video PID or the audio PID, whatever packets streaming reads.           *)
(***************************************************************************)
C15_RolesImmutable ==
    [][(pc \in {"demux", "process_file", "done"})
       => (m_pmt_pid' = m_pmt_pid /\ m_video_pid' = m_video_pid
              /\ m_audio_pid' = m_audio_pid)]_vars

\* Streaming has read a PAT that names another PMT PID and a PMT that
\* exchanges the roles.
C15_Witness ==
    /\ pc = "done"
    /\ result = 0
    /\ NumPackets = 4
    /\ PidOf(2) = 0
    /\ PmtPidOf(2) = 512
    /\ PidOf(3) = m_pmt_pid
    /\ PayloadOf(3)[14] = 27
    /\ PayloadOf(3)[16] = 2
    /\ m_pmt_pid = 256
    /\ m_video_pid = 257
    /\ m_audio_pid = 258

(***************************************************************************)
(* The PMT as the table layout defines it: section length, program-info    *)
(* length P, and the descriptors that start after the P program-info bytes *)
(* and fill the section up to the CRC.                                     *)
(***************************************************************************)
TableStartOf(k) == IF PusiOf(k) = 1 THEN 1 ELSE 0

SectionLengthOf(k) ==
    (PayloadOf(k)[TableStartOf(k) + 2] % 16) * 256
        + PayloadOf(k)[TableStartOf(k) + 3]

ProgramInfoLengthOf(k) ==
    (PayloadOf(k)[TableStartOf(k) + 11] % 16) * 256
        + PayloadOf(k)[TableStartOf(k) + 12]

\* The roles after the descriptors in the n bytes from index i (from 0) of
\* payload p.
RECURSIVE RolesFrom(_, _, _, _)
RolesFrom(p, i, n, roles) ==
    IF n <= 0 \/ i + 5 > 184 THEN roles
    ELSE LET st == p[i + 1]
             el == (p[i + 2] % 32) * 256 + p[i + 3]
             il == (p[i + 4] % 16) * 256 + p[i + 5]
         IN  RolesFrom(p, i + 5 + il, n - 5 - il,
                       IF st \in {1, 2, 16, 27, 36} THEN <<el, roles[2]>>
                       ELSE IF st \in {3, 15} THEN <<roles[1], el>>
                       ELSE roles)

DeclaredRoles(k) ==
    RolesFrom(PayloadOf(k), TableStartOf(k) + 12 + ProgramInfoLengthOf(k),
              SectionLengthOf(k) - 13 - ProgramInfoLengthOf(k),
              <<8191, 8191>>)

(***************************************************************************)
(* C17.  The first descriptor of the parsed PMT is read at table start +   *)
(* 12 + P, P being the program-info length, and after resolution the video *)
(* and audio PIDs are those of the descriptors that follow the program     *)
(* info, as for the same PMT without program info.                         *)
(***************************************************************************)
C17_ProgramInfoSkipped ==
    pmt_index >= 0
    => LET k == pmt_index
           P == ProgramInfoLengthOf(k)
       IN  /\ (pc = "pmt_descriptor" /\ left = SectionLengthOf(k) - 13 - P)
              => pi = TableStartOf(k) + 12 + P
           /\ pc \in {"demux", "process_file", "done"}
              => <<m_video_pid, m_audio_pid>> = DeclaredRoles(k)

(***************************************************************************)
(* C18.  A step of the descriptor loop that reads stream type st and PID   *)
(* el sets the video PID to el and keeps the audio PID when st is 0x01,    *)
(* 0x02, 0x10, 0x1B or 0x24; sets the audio PID to el and keeps the video  *)
(* PID when st is 0x03 or 0x0F; keeps both for any other st; and in no     *)
(* case fails the run.                                                     *)
(***************************************************************************)
C18_SavePidClasses ==
    [][(pc = "pmt_descriptor" /\ pi + 5 <= 184)
       => LET st == packet[pi + 1]
              el == (packet[pi + 2] % 32) * 256 + packet[pi + 3]
          IN  /\ st \in {1, 2, 16, 27, 36}
                 => m_video_pid' = el /\ UNCHANGED m_audio_pid
              /\ st \in {3, 15}
                 => m_audio_pid' = el /\ UNCHANGED m_video_pid
              /\ st \notin {1, 2, 16, 27, 36, 3, 15}
                 => UNCHANGED <<m_video_pid, m_audio_pid>>
              /\ UNCHANGED <<result, what, errors>>
              /\ pc' \in {"pmt_descriptor", "demux"}]_vars

\* A PMT with an H.264 descriptor followed by one of an unlisted type has
\* been resolved and the run has succeeded.
C18_Witness ==
    /\ pc = "done"
    /\ result = 0
    /\ pmt_index = 1
    /\ ProgramInfoLengthOf(1) = 0
    /\ PayloadOf(1)[14] = 27
    /\ PayloadOf(1)[19] = 129
    /\ m_video_pid = 257
    /\ m_audio_pid = 8191

(***************************************************************************)
(* C20.  Once the first packet with PID 0 has been read, the PAT has been  *)
(* accepted (its PMT PID stored, no error) exactly when its masked section *)
(* length is in 13..16; for every other section length the run has ended   *)
(* with result 1 and the program-count error.                              *)
(***************************************************************************)
C20_AcceptedSectionLengths ==
    (PatPacket < NumPackets /\ pos > 188 * PatPacket
        /\ \A j \in 0..PatPacket : SyncOf(j) = 71)
    => IF SectionLengthOf(PatPacket) \in 13..16
       THEN /\ pat_index = PatPacket
            /\ m_pmt_pid = PmtPidOf(PatPacket)
            /\ ~Logged(ERR_PROGRAMS)
            /\ what # "Can't find PAT"
       ELSE /\ pc = "done"
            /\ result = 1
            /\ what = "Can't find PAT"
            /\ errors = <<ERR_PROGRAMS>>
            /\ m_pmt_pid = 8191

\* A section length below 9, where the difference is negative.
C20_Witness ==
    /\ SectionLengthOf(0) = 6
    /\ PidOf(0) = 0
    /\ pc = "done"
    /\ errors = <<ERR_PROGRAMS>>

(***************************************************************************)
(* C19.  A run on a file and the run on the same file with the reserved    *)
(* bits of its PAT and PMT words cleared end with the same result and the  *)
(* same PMT, video and audio PIDs.                                         *)
(***************************************************************************)
C19_ReservedBitsIgnored ==
    (first # NoRun /\ pc = "done")
    => /\ first.result = result
       /\ first.what = what
       /\ first.m_pmt_pid = m_pmt_pid
       /\ first.m_video_pid = m_video_pid
       /\ first.m_audio_pid = m_audio_pid

(***************************************************************************)
(* C21.  The packet parsed as PAT is the first packet with PID 0; the      *)
(* packet parsed as PMT comes after it and is the first packet after it    *)
(* whose PID is the PMT PID of that PAT, so a packet with the PMT PID      *)
(* before the PAT is never parsed; and every packet routed to a sink comes *)
(* after both.                                                             *)
(***************************************************************************)
C21_PatThenPmt ==
    /\ pat_index >= 0
       => /\ pat_index = FirstWithPid(0, 0)
          /\ ~Logged(ERR_PROGRAMS) => m_pmt_pid = PmtPidOf(pat_index)
    /\ pmt_index >= 0
       => /\ pat_index >= 0
          /\ pmt_index = FirstWithPid(PmtPidOf(pat_index), pat_index + 1)
    /\ \A i \in 1..Len(writes) :
          /\ pat_index >= 0
          /\ pmt_index > pat_index
          /\ writes[i].packet > pmt_index

\* A PMT comes before the PAT; the PMT after the PAT has been parsed and a
\* packet routed.
C21_Witness ==
    /\ NumPackets = 4
    /\ PidOf(0) = 256
    /\ pat_index = 1
    /\ m_pmt_pid = 256
    /\ pmt_index = 2
    /\ Len(writes) = 1

(***************************************************************************)
(* C22.  At the end of a run whose parsed PMT has no audio-class           *)
(* descriptor, the audio PID being still 0x1FFF, the audio sink is empty;  *)
(* likewise the video sink when the PMT has no video-class descriptor.     *)
(***************************************************************************)
C22_UnassignedRoleGetsNothing ==
    (pmt_index >= 0 /\ pc = "done")
    => /\ (DeclaredRoles(pmt_index)[2] = 8191 /\ m_audio_pid = 8191)
          => audio_es = <<>>
       /\ (DeclaredRoles(pmt_index)[1] = 8191 /\ m_video_pid = 8191)
          => video_es = <<>>

(***************************************************************************)
(* C23.  The constructor has succeeded (demux or streaming is reached)     *)
(* only when a PID-0 packet and then a PMT-PID packet have been parsed,    *)
(* and the sinks are open only then: a run that ends without a parsed PMT  *)
(* has opened no sink.                                                     *)
(***************************************************************************)
C23_NoSinkWithoutTables ==
    /\ pc \in {"demux", "process_file"}
       => (pat_index >= 0 /\ pmt_index > pat_index)
    /\ sinks_open => (pat_index >= 0 /\ pmt_index > pat_index)
    /\ (pc = "done" /\ pmt_index < 0) => ~sinks_open

(***************************************************************************)
(* C24.  Every payload index read is within 0..183: the 5 bytes of a       *)
(* descriptor read by the PMT loop at pi..pi+4, and, for every routed      *)
(* packet with PUSI set, the 4 bytes read 6 bytes after the end of the     *)
(* adaptation field to find the PES header-data length.  (The PAT and the  *)
(* PMT header are read at fixed indexes below 15.)                         *)
(***************************************************************************)
C24_ReadsInsidePayload ==
    /\ pc = "pmt_descriptor" => (pi >= 0 /\ pi + 4 <= 183)
    /\ \A i \in 1..Len(writes) :
          LET k == writes[i].packet
              af == IF AfcOf(k) \in {2, 3} THEN PayloadOf(k)[1] + 1 ELSE 0
          IN  PusiOf(k) = 1 => af + 6 + 3 <= 183

(***************************************************************************)
(* C25.  Every run ends, with result 0 (success) or 1 (fatal error); each  *)
(* iteration of the PAT, PMT and streaming loops consumes one 188-byte     *)
(* packet or leaves the loop; each iteration of the descriptor loop        *)
(* decreases the remaining-byte counter by at least 5.                     *)
(***************************************************************************)
C25_EndsInSuccessOrError ==
    /\ <>(pc = "done" /\ result \in {0, 1})
    /\ [][/\ Reading => (pos' = pos + 188 \/ pc' # pc)
          /\ pc = "pmt_descriptor" => left' <= left - 5]_vars

\* The number of descriptors with a type in types among the descriptors in
\* the n bytes from index i (from 0) of payload p.
RECURSIVE CountClass(_, _, _, _)
CountClass(p, i, n, types) ==
    IF n <= 0 \/ i + 5 > 184 THEN 0
    ELSE (IF p[i + 1] \in types THEN 1 ELSE 0)
         + CountClass(p, i + 5 + (p[i + 4] % 16) * 256 + p[i + 5],
                      n - 5 - ((p[i + 4] % 16) * 256 + p[i + 5]), types)

DeclaredCount(k, types) ==
    CountClass(PayloadOf(k), TableStartOf(k) + 12 + ProgramInfoLengthOf(k),
               SectionLengthOf(k) - 13 - ProgramInfoLengthOf(k), types)

(***************************************************************************)
(* C26.  When the parsed PMT lists several video-class descriptors, the    *)
(* video PID after resolution is the PID of the last of them in section    *)
(* order, and no packet with another PID reaches the video sink; likewise  *)
(* for several audio-class descriptors and the audio sink.                 *)
(***************************************************************************)
C26_LastDescriptorWins ==
    (pmt_index >= 0 /\ pc \in {"demux", "process_file", "done"})
    => /\ DeclaredCount(pmt_index, {1, 2, 16, 27, 36}) > 1
          => /\ m_video_pid = DeclaredRoles(pmt_index)[1]
             /\ \A i \in 1..Len(writes) :
                   writes[i].sink = "video"
                   => PidOf(writes[i].packet) = DeclaredRoles(pmt_index)[1]
       /\ DeclaredCount(pmt_index, {3, 15}) > 1
          => /\ m_audio_pid = DeclaredRoles(pmt_index)[2]
             /\ \A i \in 1..Len(writes) :
                   writes[i].sink = "audio"
                   => PidOf(writes[i].packet) = DeclaredRoles(pmt_index)[2]

====
